---- MODULE Spec2Model ----
(***************************************************************************)
(* Rainfall hindcast dashboard: the three Streamlit scripts                *)
(*   app.py                                        (single season page)    *)
(*   Multi_Season_Rainfall_Hindcast_Analysis.py    (multi season page)     *)
(*   pages/Multi_Season_Rainfall_Hindcast_Analysis.py (all seasons page)   *)
(* modelled as one state machine.  A script run is one action: it loads    *)
(* the CSV files, reads the widget values and builds the bad-year tables.  *)
(***************************************************************************)
EXTENDS Integers, Sequences, FiniteSets, TLC

VARIABLES files,         \* data/<country>: season -> region -> rows of the CSV file
          current_year,  \* datetime.datetime.now().year
          page,          \* script that produced the outputs below, or "idle"
          sel,           \* widget values read by the run
          data,          \* the loaded series (season -> region -> DataFrame)
          thr,           \* outcome of the threshold pass
          freq,          \* outcome of the lowest-percentage pass
          hist,          \* outcome of the historical frequency analysis
          cache,         \* st.cache_data memo of load_selected_seasons: arguments -> result
          sliders        \* arguments of the st.slider calls the run made

vars == <<files, current_year, page, sel, data, thr, freq, hist, cache, sliders>>

----------------------------------------------------------------------------
(* Bounds of the model *)

MaxRows == 2             \* longest CSV file of the generic file family
MaxYear == 2027          \* last calendar year the clock reaches

----------------------------------------------------------------------------
(* Cells, missing values and IEEE comparisons                              *)

\* numpy.nan as produced by pd.to_numeric(errors="coerce"): a value no year or
\* rainfall of the model takes
NaN == -999999
\* a CSV cell whose text is not a number
Junk == -888888
\* float('inf') / float('-inf') start values of min_year / max_year
PosInf == 1000000
NegInf == -1000000

ToNumeric(c) == IF c = Junk THEN NaN ELSE c

\* a < b on floats: false as soon as one side is NaN
Lt(a, b) == a # NaN /\ b # NaN /\ a < b
Le(a, b) == a # NaN /\ b # NaN /\ a <= b
Ge(a, b) == a # NaN /\ b # NaN /\ a >= b

\* a + b on floats
Add(a, b) == IF a = NaN \/ b = NaN THEN NaN ELSE a + b

\* Series.min() / Series.max(): missing values are skipped, NaN when none is left
SeriesMin(s) ==
    LET vals == {s[i] : i \in DOMAIN s} \ {NaN}
    IN  IF vals = {} THEN NaN ELSE CHOOSE v \in vals : \A w \in vals : v <= w
SeriesMax(s) ==
    LET vals == {s[i] : i \in DOMAIN s} \ {NaN}
    IN  IF vals = {} THEN NaN ELSE CHOOSE v \in vals : \A w \in vals : v >= w

\* the builtin min(list) / max(list): keeps the first element unless a later one compares below / above
RECURSIVE PyMinFrom(_, _, _)
PyMinFrom(s, i, cur) ==
    IF i > Len(s) THEN cur
    ELSE PyMinFrom(s, i + 1, IF Lt(s[i], cur) THEN s[i] ELSE cur)
PyMin(s) == PyMinFrom(s, 2, s[1])
RECURSIVE PyMaxFrom(_, _, _)
PyMaxFrom(s, i, cur) ==
    IF i > Len(s) THEN cur
    ELSE PyMaxFrom(s, i + 1, IF Lt(cur, s[i]) THEN s[i] ELSE cur)
PyMax(s) == PyMaxFrom(s, 2, s[1])

Column(df, name) == [i \in 1..Len(df) |-> df[i][name]]

----------------------------------------------------------------------------
(* The data folder                                                         *)

Seasons == {"JAS", "JJA"}
Regions == {"A", "B"}
RainVals == {30, 50}

\* one line of a header-less two-column CSV file
Row(c0, c1) == [c0 |-> c0, c1 |-> c1]

\* line i of a generic file: an index, a calendar year or junk; a rainfall or an empty cell
RowsAt(i) == {Row(y, r) : y \in {i, 2000 + i, Junk}, r \in RainVals \cup {Junk}}

RECURSIVE FilesOfLen(_)
FilesOfLen(n) ==
    IF n = 0 THEN {<<>>}
    ELSE {Append(f, r) : f \in FilesOfLen(n - 1), r \in RowsAt(n)}

\* pd.read_csv raises on an empty file, so a file has at least one line
GenericFiles == UNION {FilesOfLen(n) : n \in 1..MaxRows}

\* the series of the worked scenario: [(1,100),(2,50),(3,200),(4,30)]
ScenarioFile == <<Row(1, 100), Row(2, 50), Row(3, 200), Row(4, 30)>>

\* well-formed index files used when every region has a file in every season
SmallFiles == { <<Row(1, 30)>>,
                <<Row(1, 30), Row(2, 50)>>,
                <<Row(1, 50), Row(2, 30)>> }

\* a country folder with one season and one region, or with every season and region
SingleFolders == {[s \in {"JJA"} |-> [r \in {"A"} |-> f]] : f \in GenericFiles \cup {ScenarioFile}}
FullFolders == [Seasons -> [Regions -> SmallFiles]]

----------------------------------------------------------------------------
(* Loaders                                                                 *)

\* app.load_data / pages.load_all_seasons, one file: unparsable years are
\* dropped (dropna on the frame), the rest is shifted by 1990
FixedOffsetDf(file) ==
    LET kept == SelectSeq(file, LAMBDA r : ToNumeric(r.c0) # NaN)
    IN  [i \in 1..Len(kept) |->
            [Year |-> ToNumeric(kept[i].c0) + 1990, Rainfall |-> ToNumeric(kept[i].c1)]]

\* load_selected_seasons, one file.  The right-hand side of line 89 is a
\* shorter Series; assigning it to df["Year"] aligns it on the index, so the
\* rows with an unparsable year stay in the frame with Year = NaN.
IndexDetectDf(file, now) ==
    LET year       == [i \in 1..Len(file) |-> ToNumeric(file[i].c0)]
        below      == Cardinality({i \in 1..Len(file) : Lt(year[i], 1000)})
        isIndex    == 2 * below > Len(file)          \* (Year < 1000).sum() > shape[0] / 2
        max_index  == SeriesMax(year)
        start_year == IF max_index = NaN THEN NaN ELSE now - max_index
    IN  [i \in 1..Len(file) |->
            [Year     |-> IF isIndex THEN Add(year[i], start_year) ELSE year[i],
             Rainfall |-> ToNumeric(file[i].c1)]]

load_data(season) ==
    IF season \in DOMAIN files
    THEN [r \in DOMAIN files[season] |-> FixedOffsetDf(files[season][r])]
    ELSE << >>

load_all_seasons ==
    [s \in DOMAIN files |-> [r \in DOMAIN files[s] |-> FixedOffsetDf(files[s][r])]]

load_selected_seasons(selected_seasons) ==
    [s \in {selected_seasons[i] : i \in DOMAIN selected_seasons} |->
        [r \in DOMAIN files[s] |-> IndexDetectDf(files[s][r], current_year)]]

\* @st.cache_data on load_selected_seasons: the memo is keyed by the
\* arguments (country and base folder are fixed, so by the list of seasons).
\* load_data and load_all_seasons are memoised too; they read nothing but
\* the files, which never change, so their memo is not observable.
EmptyCache == << >>
cached_load_selected_seasons(selected_seasons) ==
    IF selected_seasons \in DOMAIN cache
    THEN cache[selected_seasons]
    ELSE load_selected_seasons(selected_seasons)
Memoized(selected_seasons) ==
    [k \in DOMAIN cache \cup {selected_seasons} |-> 
        IF k \in DOMAIN cache THEN cache[k] ELSE load_selected_seasons(selected_seasons)]

----------------------------------------------------------------------------
(* Python and pandas helpers used by the classification passes             *)

\* list.sort() on fewer than 64 elements: count_run, then binary insertion,
\* every comparison being "<" (false on NaN)
RECURSIVE DescRun(_, _)
DescRun(a, i) ==
    IF i > Len(a) THEN Len(a)
    ELSE IF Lt(a[i], a[i - 1]) THEN DescRun(a, i + 1) ELSE i - 1
RECURSIVE AscRun(_, _)
AscRun(a, i) ==
    IF i > Len(a) THEN Len(a)
    ELSE IF Lt(a[i], a[i - 1]) THEN i - 1 ELSE AscRun(a, i + 1)
RECURSIVE BinPos(_, _, _, _)
BinPos(a, pivot, l, r) ==
    IF l >= r THEN l
    ELSE LET p == l + ((r - l) \div 2)
         IN  IF Lt(pivot, a[p]) THEN BinPos(a, pivot, l, p) ELSE BinPos(a, pivot, p + 1, r)
RECURSIVE BinarySort(_, _)
BinarySort(a, start) ==
    IF start > Len(a) THEN a
    ELSE LET l == BinPos(a, a[start], 1, start)
         IN  BinarySort(SubSeq(a, 1, l - 1) \o <<a[start]>> \o SubSeq(a, l, start - 1)
                            \o SubSeq(a, start + 1, Len(a)),
                        start + 1)
Reversed(a) == [i \in 1..Len(a) |-> a[Len(a) + 1 - i]]
PySorted(a) ==
    IF Len(a) < 2 THEN a
    ELSE LET desc == Lt(a[2], a[1])
             n    == IF desc THEN DescRun(a, 3) ELSE AscRun(a, 3)
             run  == IF desc THEN Reversed(SubSeq(a, 1, n)) ELSE SubSeq(a, 1, n)
         IN  BinarySort(run \o SubSeq(a, n + 1, Len(a)), n + 1)

\* DataFrame.sort_values(by="Rainfall"): ascending, rows with a missing
\* rainfall last, equal values in their original order (insertion sort is
\* what numpy runs on arrays this short)
RECURSIVE StableInsert(_, _, _)
StableInsert(sorted, row, i) ==
    IF i > Len(sorted) \/ row.Rainfall < sorted[i].Rainfall
    THEN SubSeq(sorted, 1, i - 1) \o <<row>> \o SubSeq(sorted, i, Len(sorted))
    ELSE StableInsert(sorted, row, i + 1)
RECURSIVE StableSort(_, _, _)
StableSort(df, i, acc) ==
    IF i > Len(df) THEN acc ELSE StableSort(df, i + 1, StableInsert(acc, df[i], 1))
\* (mutation) the frame is left in file order
sort_values_unsorted(df) == df
sort_values(df) ==
    StableSort(SelectSeq(df, LAMBDA r : r.Rainfall # NaN), 1, << >>)
        \o SelectSeq(df, LAMBDA r : r.Rainfall = NaN)

head(df, n) == SubSeq(df, 1, IF n < Len(df) THEN n ELSE Len(df))

\* int(len(df_sorted) * (freq_percentage / 100)).  For the slider's values
\* (5..50 step 5) and series this short the double product truncates to
\* the exact quotient.
num_values(df, freq_percentage) == (Len(df) * freq_percentage) \div 100

\* the Year values of the lowest rows
lowest_years(df, freq_percentage) ==
    Column(head(sort_values(df), num_values(df, freq_percentage)), "Year")

\* A dict {year: {column: "Yes"}} in insertion order: a sequence of
\* [k |-> year, v |-> columns in insertion order]
DictKeys(d) == [i \in 1..Len(d) |-> d[i].k]
DictHas(d, k) == \E i \in 1..Len(d) : d[i].k = k /\ k # NaN
SeqHas(s, x) == \E i \in 1..Len(s) : s[i] = x
\* d.get(y, {}).get(col, "")
DictGet(d, y, col) ==
    IF \E i \in 1..Len(d) : d[i].k = y /\ y # NaN /\ SeqHas(d[i].v, col) THEN "Yes" ELSE ""

\* if year not in d: d[year] = {} ; d[year][col] = "Yes"
DictSet(d, year, col) ==
    IF DictHas(d, year)
    THEN [i \in 1..Len(d) |->
            IF d[i].k = year /\ ~SeqHas(d[i].v, col)
            THEN [k |-> year, v |-> Append(d[i].v, col)] ELSE d[i]]
    ELSE Append(d, [k |-> year, v |-> <<col>>])
RECURSIVE DictSetAll(_, _, _, _)
DictSetAll(d, years, i, col) ==
    IF i > Len(years) THEN d ELSE DictSetAll(DictSet(d, years[i], col), years, i + 1, col)
----------------------------------------------------------------------------
(* Widgets                                                                 *)

\* st.multiselect returns the chosen options in the order they were chosen
OrderedSelections(S) ==
    {s \in UNION {[1..n -> S] : n \in 0..Cardinality(S)} :
        \A i, j \in DOMAIN s : i # j => s[i] # s[j]}

\* values the threshold slider is moved to
ThresholdVals == {30, 40, 50}
\* values of the percentage slider (5..50, step 5) that are tried
Percentages == {25, 50}

Range(s) == {s[i] : i \in DOMAIN s}

\* sorted(os.listdir(country_path)) of get_country_season_options
SeasonOrder == <<"JAS", "JJA">>
country_seasons == SelectSeq(SeasonOrder, LAMBDA s : s \in DOMAIN files)

\* f"{region} - {season}" and the "Year" column label
ColName(region, season) == <<region, season>>
YearLabel == <<"Year">>
\* col.startswith(region)
StartsWith(col, region) == col[1] = region

----------------------------------------------------------------------------
(* Classification passes and tables                                         *)

\* outcome of a pass that did not run
PassOff == [ran |-> FALSE, dict |-> << >>, shown |-> FALSE, Year |-> << >>,
            columns |-> << >>, cell |-> << >>, signal |-> "none"]

\* a pass that ran and emitted no table
NoTable(d, signal) == [ran |-> TRUE, dict |-> d, shown |-> FALSE, Year |-> << >>,
                       columns |-> << >>, cell |-> << >>, signal |-> signal]

\* formatted_df: the Year column is sorted(d.keys()), one column per name in
\* cols, each cell d.get(y, {}).get(col, "")
FormattedDf(d, cols) ==
    LET years == PySorted(DictKeys(d))
    IN  [ran |-> TRUE, dict |-> d, shown |-> TRUE, Year |-> years, columns |-> cols,
         cell |-> [i \in 1..Len(years) |-> [c \in Range(cols) |-> DictGet(d, years[i], c)]],
         signal |-> "none"]

\* (mutation) the comparison is <= instead of <
years_at_or_below(df, threshold) ==
    Column(SelectSeq(df, LAMBDA r : Le(r.Rainfall, threshold)), "Year")
\* df[df["Rainfall"] < threshold]["Year"].tolist()
years_below(df, threshold) ==
    Column(SelectSeq(df, LAMBDA r : Lt(r.Rainfall, threshold)), "Year")

\* the loop of app.py 139-145 over entries [k |-> column, v |-> DataFrame]
RECURSIVE ThresholdDict(_, _, _, _)
ThresholdDict(d, entries, i, threshold) ==
    IF i > Len(entries) THEN d
    ELSE ThresholdDict(DictSetAll(d, years_below(entries[i].v, threshold), 1, entries[i].k),
                       entries, i + 1, threshold)

\* the loops of app.py 196-205, multi 225-233 and pages 87-99
RECURSIVE FrequencyDict(_, _, _, _)
FrequencyDict(d, entries, i, freq_percentage) ==
    IF i > Len(entries) THEN d
    ELSE FrequencyDict(DictSetAll(d, lowest_years(entries[i].v, freq_percentage), 1, entries[i].k),
                       entries, i + 1, freq_percentage)

\* [f(min) for selected] + [f(max) for selected], then min() and max() of the list
selected_rainfall_values(entries) ==
    [i \in 1..Len(entries) |-> SeriesMin(Column(entries[i].v, "Rainfall"))]
        \o [i \in 1..Len(entries) |-> SeriesMax(Column(entries[i].v, "Rainfall"))]

----------------------------------------------------------------------------
(* Historical frequency analysis (multi-season script, 254-322)            *)

\* (selected_bad_years / total_selected_years) * 100, kept as the exact
\* fraction num / den
Percentage(selected_bad_years, total_selected_years) ==
    [num |-> selected_bad_years * 100, den |-> total_selected_years]
\* the literal 0 of line 285
ZeroPercentage == [num |-> 0, den |-> 1]

\* v > 0 on a percentage
Positive(v) == v.num > 0

\* set(k for v in all_bad_years.values() for k in v.keys())
FlaggedColumns(all_bad_years) ==
    UNION {Range(all_bad_years[i].v) : i \in 1..Len(all_bad_years)}

\* 267-285: one entry per column that has a flagged year, none when
\* all_bad_years is empty
selected_years_percentages(all_bad_years, selected_years) ==
    LET total_selected_years == Len(selected_years)
    IN  IF all_bad_years # << >> /\ selected_years # << >>
        THEN [col_name \in FlaggedColumns(all_bad_years) |->
                 LET selected_bad_years ==
                         Cardinality({j \in 1..Len(selected_years) :
                             DictGet(all_bad_years, selected_years[j], col_name) = "Yes"})
                 IN  IF total_selected_years > 0
                     THEN Percentage(selected_bad_years, total_selected_years)
                     ELSE ZeroPercentage]
        ELSE << >>

\* the analysis did not run
HistOff == [ran |-> FALSE, year_options |-> {}, selected_years |-> << >>,
            computed |-> FALSE, percentages |-> << >>, signal |-> "none"]

\* 258-322: year_options = list(range(int(year_range[0]), int(year_range[1]) + 1));
\* with years chosen the percentages are computed and charted ("chart") or,
\* none being positive, a warning is shown; with no year chosen st.info is
\* shown and selected_years_percentages is never assigned
HistoricalPass(all_bad_years, year_range, selected_years) ==
    LET percentages == selected_years_percentages(all_bad_years, selected_years)
    IN  [ran |-> TRUE,
         year_options |-> year_range[1]..year_range[2],
         selected_years |-> selected_years,
         computed |-> selected_years # << >>,
         percentages |-> IF selected_years # << >> THEN percentages ELSE << >>,
         signal |-> IF selected_years = << >> THEN "info"
                    ELSE IF \E c \in DOMAIN percentages : Positive(percentages[c])
                    THEN "chart" ELSE "warning"]

\* the elements of a set of integers in ascending order
RECURSIVE Ascending(_)
Ascending(S) ==
    IF S = {} THEN << >>
    ELSE LET m == CHOOSE x \in S : \A y \in S : x <= y
         IN  <<m>> \o Ascending(S \ {m})

----------------------------------------------------------------------------
(* State machine                                                           *)

\* no widget has been read
NoSel == [seasons |-> << >>, regions |-> << >>, use_threshold |-> FALSE, threshold |-> NaN,
          freq_percentage |-> NaN, year_range |-> << >>]

\* a slider that was not built, and the arguments of one that was
NoSlider == << >>
Slider(min_value, max_value, value) ==
    [min_value |-> min_value, max_value |-> max_value, value |-> value]
NoSliders == [threshold |-> NoSlider, year_range |-> NoSlider]

\* (mutation) the slider starts at the maximum
threshold_default_max(min_rainfall, max_rainfall) == max_rainfall
\* value=float(min_rainfall)
threshold_default(min_rainfall, max_rainfall) == min_rainfall

\* st.slider(label, float(min_rainfall), float(max_rainfall), value=float(min_rainfall))
threshold_slider(min_rainfall, max_rainfall) ==
    Slider(min_rainfall, max_rainfall, threshold_default(min_rainfall, max_rainfall))

\* st.slider(label, min_value=int(min_year), max_value=int(max_year),
\*           value=(int(min_year), int(max_year)))
year_range_slider(min_y, max_y) == Slider(min_y, max_y, <<min_y, max_y>>)

Init ==
    /\ files \in SingleFolders \cup FullFolders
    /\ current_year = 2026
    /\ page = "idle"
    /\ sel = NoSel
    /\ data = << >>
    /\ thr = PassOff
    /\ freq = PassOff
    /\ hist = HistOff
    /\ cache = EmptyCache
    /\ sliders = NoSliders

\* st.slider(float(min_rainfall), float(max_rainfall), value=float(min_rainfall)):
\* the value read.  With an undefined bound the widget either raises, which
\* ends the run, or returns its NaN default.
SliderValues(lo, hi) ==
    IF lo = NaN \/ hi = NaN THEN {NaN}
    ELSE {t \in ThresholdVals : lo <= t /\ t <= hi}

----------------------------------------------------------------------------
(* app.py                                                                  *)

AppEntries(data_dict, selected_regions) ==
    [i \in 1..Len(selected_regions) |->
        [k |-> selected_regions[i], v |-> data_dict[selected_regions[i]]]]

AppThresholdPass(entries, threshold) ==
    LET bad_years_dict == ThresholdDict(<< >>, entries, 1, threshold)
    IN  IF bad_years_dict # << >>
        THEN FormattedDf(bad_years_dict, [i \in 1..Len(entries) |-> entries[i].k])
        ELSE NoTable(bad_years_dict, "none")

AppFrequencyPass(entries, freq_percentage) ==
    LET freq_bad_years_dict == FrequencyDict(<< >>, entries, 1, freq_percentage)
    IN  IF freq_bad_years_dict # << >>
        THEN FormattedDf(freq_bad_years_dict, [i \in 1..Len(entries) |-> entries[i].k])
        ELSE NoTable(freq_bad_years_dict, "success")

\* one run of app.py, reading selected_season from the season selectbox
\* (a value of the run is bound by \E over a singleton, which evaluates it once)
RunApp(selected_season) ==
    /\ page = "idle"
    /\ selected_season \in Range(country_seasons)
    /\ \E data_dict \in {load_data(selected_season)} :
       \E selected_regions \in OrderedSelections(DOMAIN data_dict) :
       \E entries \in {AppEntries(data_dict, selected_regions)} :
       \E values \in {selected_rainfall_values(entries)} :
       \E valid \in {DOMAIN data_dict # {} /\ selected_regions # << >>} :
       \E min_rainfall \in {IF valid THEN PyMin(values) ELSE NaN} :
       \E max_rainfall \in {IF valid THEN PyMax(values) ELSE NaN} :
       \E use_threshold \in (IF valid THEN BOOLEAN ELSE {FALSE}) :
       \E threshold \in (IF use_threshold
                         THEN SliderValues(min_rainfall, max_rainfall)
                                  \cup {threshold_default(min_rainfall, max_rainfall)}
                         ELSE {NaN}) :
       \E raised \in (IF use_threshold /\ threshold = NaN THEN BOOLEAN ELSE {FALSE}) :
       \E thr_pass \in {IF raised THEN [PassOff EXCEPT !.signal = "exception"]
                         ELSE IF use_threshold THEN AppThresholdPass(entries, threshold)
                         ELSE PassOff} :
       \E built \in {[threshold  |-> IF use_threshold
                                      THEN threshold_slider(min_rainfall, max_rainfall)
                                      ELSE NoSlider,
                       year_range |-> NoSlider]} :
       \E freq_percentage \in (IF valid /\ ~raised THEN Percentages ELSE {NaN}) :
          /\ page' = "app"
          /\ sliders' = built
          /\ data' = [s \in {selected_season} |-> data_dict]
          /\ sel' = [seasons |-> <<selected_season>>, regions |-> selected_regions,
                     use_threshold |-> use_threshold, threshold |-> threshold,
                     freq_percentage |-> freq_percentage, year_range |-> << >>]
          /\ thr' = thr_pass
          /\ freq' = IF valid /\ ~raised
                     THEN AppFrequencyPass(entries, freq_percentage) ELSE PassOff
          /\ hist' = HistOff
          /\ UNCHANGED <<files, current_year, cache>>

----------------------------------------------------------------------------
(* Multi_Season_Rainfall_Hindcast_Analysis.py                              *)

\* "for season in selected_seasons for region in selected_regions":
\* the (season, region) pairs, season-major
SeasonRegionPairs(seasons, regions) ==
    [i \in 1..(Len(seasons) * Len(regions)) |->
        [season |-> seasons[((i - 1) \div Len(regions)) + 1],
         region |-> regions[((i - 1) % Len(regions)) + 1]]]

\* data_dict (113-114), and the traversal of 211-219, as ordered entries
MultiEntries(all_season_data, selected_seasons, selected_regions) ==
    LET present == SelectSeq(SeasonRegionPairs(selected_seasons, selected_regions),
                             LAMBDA p : /\ p.season \in DOMAIN all_season_data
                                        /\ p.region \in DOMAIN all_season_data[p.season])
    IN  [i \in 1..Len(present) |->
            [k |-> ColName(present[i].region, present[i].season),
             v |-> all_season_data[present[i].season][present[i].region]]]

\* year in df["Year"].values and df[df["Year"] == year]["Rainfall"].values[0] < threshold
first_row_below(df, year, threshold) ==
    /\ year # NaN
    /\ \E i \in 1..Len(df) :
          /\ df[i].Year = year
          /\ \A j \in 1..(i - 1) : df[j].Year # year
          /\ Lt(df[i].Rainfall, threshold)

\* the dict comprehension of 159-161: one key per year of any frame (a NaN
\* year never equals an earlier key, so each makes a key of its own), the
\* value holding the columns below the threshold in that year
RECURSIVE ComprehensionDict(_, _, _, _, _)
ComprehensionDict(d, years, i, entries, threshold) ==
    IF i > Len(years) THEN d
    ELSE LET cols  == SelectSeq([n \in 1..Len(entries) |-> n],
                                LAMBDA n : first_row_below(entries[n].v, years[i], threshold))
             value == [n \in 1..Len(cols) |-> entries[cols[n]].k]
             item  == [k |-> years[i], v |-> value]
         IN  ComprehensionDict(
                 IF DictHas(d, years[i])
                 THEN [n \in 1..Len(d) |-> IF d[n].k = years[i] THEN item ELSE d[n]]
                 ELSE Append(d, item),
                 years, i + 1, entries, threshold)

RECURSIVE AllYears(_, _)
AllYears(entries, i) ==
    IF i > Len(entries) THEN << >>
    ELSE Column(entries[i].v, "Year") \o AllYears(entries, i + 1)

MultiThresholdPass(entries, threshold) ==
    LET bad_years_dict == ComprehensionDict(<< >>, AllYears(entries, 1), 1, entries, threshold)
    IN  IF bad_years_dict # << >>
        THEN FormattedDf(bad_years_dict, [i \in 1..Len(entries) |-> entries[i].k])
        ELSE NoTable(bad_years_dict, "none")

\* 189-199: min_year / max_year over the selected frames
min_year(entries) ==
    PyMin(<<PosInf>> \o [i \in 1..Len(entries) |-> SeriesMin(Column(entries[i].v, "Year"))])
max_year(entries) ==
    PyMax(<<NegInf>> \o [i \in 1..Len(entries) |-> SeriesMax(Column(entries[i].v, "Year"))])

\* (mutation) the frames are classified whole
filtered_unrestricted(entries, year_range) == entries
\* df[(df["Year"] >= year_range[0]) & (df["Year"] <= year_range[1])]
filtered(entries, year_range) ==
    [i \in 1..Len(entries) |->
        [k |-> entries[i].k,
         v |-> SelectSeq(entries[i].v,
                         LAMBDA r : Ge(r.Year, year_range[1]) /\ Le(r.Year, year_range[2]))]]

MultiFrequencyPass(filtered_data, freq_percentage) ==
    LET all_bad_years == FrequencyDict(<< >>, filtered_data, 1, freq_percentage)
    IN  IF all_bad_years # << >>
        THEN FormattedDf(all_bad_years, [i \in 1..Len(filtered_data) |-> filtered_data[i].k])
        ELSE NoTable(all_bad_years, "none")

\* positions the year-range slider is moved to: the years of the data
\* between int(min_year) and int(max_year)
YearRanges(entries) ==
    LET years == Range(AllYears(entries, 1)) \ {NaN}
    IN  {yr \in years \X years :
            min_year(entries) <= yr[1] /\ yr[1] <= yr[2] /\ yr[2] <= max_year(entries)}

\* selections tried in the historical-years multiselect: the years of the
\* data among year_options, picked in ascending order
YearPicks(entries, year_range) ==
    LET years == {y \in Range(AllYears(entries, 1)) \ {NaN} :
                     year_range[1] <= y /\ y <= year_range[2]}
    IN  {Ascending(S) : S \in SUBSET years}

\* one run of the multi-season script, reading selected_seasons from the
\* season multiselect
RunMulti(selected_seasons) ==
    /\ page = "idle"
    /\ selected_seasons \in OrderedSelections(Range(country_seasons))
    /\ \E all_season_data \in {cached_load_selected_seasons(selected_seasons)} :
       \E memo \in {Memoized(selected_seasons)} :
       \E all_regions \in {UNION {DOMAIN all_season_data[s] : s \in DOMAIN all_season_data}} :
       \E selected_regions \in OrderedSelections(all_regions) :
       \E entries \in {MultiEntries(all_season_data, selected_seasons, selected_regions)} :
       \E values \in {selected_rainfall_values(entries)} :
       \E valid \in {selected_regions # << >> /\ selected_seasons # << >> /\ entries # << >>} :
       \E min_rainfall \in {IF valid THEN PyMin(values) ELSE NaN} :
       \E max_rainfall \in {IF valid THEN PyMax(values) ELSE NaN} :
       \E analysed \in {selected_regions # << >> /\ selected_seasons # << >>} :
       \E min_y \in {min_year(entries)} :
       \E max_y \in {max_year(entries)} :
       \E has_years \in {analysed /\ min_y # PosInf /\ max_y # NegInf} :
       \E use_threshold \in (IF valid THEN BOOLEAN ELSE {FALSE}) :
       \E threshold \in (IF use_threshold
                         THEN SliderValues(min_rainfall, max_rainfall)
                                  \cup {threshold_default(min_rainfall, max_rainfall)}
                         ELSE {NaN}) :
       \E raised \in (IF use_threshold /\ threshold = NaN THEN BOOLEAN ELSE {FALSE}) :
       \E thr_pass \in {IF raised THEN [PassOff EXCEPT !.signal = "exception"]
                         ELSE IF use_threshold THEN MultiThresholdPass(entries, threshold)
                         ELSE PassOff} :
       \E built \in {[threshold  |-> IF use_threshold
                                      THEN threshold_slider(min_rainfall, max_rainfall)
                                      ELSE NoSlider,
                       year_range |-> IF has_years /\ ~raised
                                      THEN year_range_slider(min_y, max_y)
                                      ELSE NoSlider]} :
       \E year_range \in (IF has_years /\ ~raised THEN YearRanges(entries) ELSE {<< >>}) :
       \E freq_percentage \in (IF has_years /\ ~raised THEN Percentages ELSE {NaN}) :
       \E freq_pass \in {IF raised THEN PassOff
                          ELSE IF has_years
                          THEN MultiFrequencyPass(filtered(entries, year_range), freq_percentage)
                          ELSE IF analysed THEN [PassOff EXCEPT !.signal = "warning"]
                          ELSE PassOff} :
       \E selected_years \in (IF has_years /\ ~raised THEN YearPicks(entries, year_range)
                              ELSE {<< >>}) :
          /\ page' = "multi"
          /\ sliders' = built
          /\ data' = all_season_data
          /\ sel' = [seasons |-> selected_seasons, regions |-> selected_regions,
                     use_threshold |-> use_threshold, threshold |-> threshold,
                     freq_percentage |-> freq_percentage, year_range |-> year_range]
          /\ thr' = thr_pass
          /\ freq' = freq_pass
          /\ hist' = IF has_years /\ ~raised
                     THEN HistoricalPass(freq_pass.dict, year_range, selected_years)
                     ELSE HistOff
          /\ cache' = memo
          /\ UNCHANGED <<files, current_year>>

----------------------------------------------------------------------------
(* pages/Multi_Season_Rainfall_Hindcast_Analysis.py                        *)

\* "for season, season_data in all_season_data.items(): for region in
\* selected_regions: if region in season_data"
PagesEntries(all_season_data, selected_regions) ==
    MultiEntries(all_season_data, country_seasons, selected_regions)

\* 114-118: a column is created the first time a year names it
RECURSIVE AppendMissing(_, _, _)
AppendMissing(columns, cols, i) ==
    IF i > Len(cols) THEN columns
    ELSE AppendMissing(IF SeqHas(columns, cols[i]) THEN columns ELSE Append(columns, cols[i]),
                       cols, i + 1)
RECURSIVE FilledColumns(_, _, _)
FilledColumns(columns, d, i) ==
    IF i > Len(d) THEN columns
    ELSE FilledColumns(AppendMissing(columns, d[i].v, 1), d, i + 1)

\* 106-111: column_order is computed while formatted_df holds the Year
\* column alone, so it keeps the columns of formatted_df that start with a
\* selected region's name
RECURSIVE column_order(_, _, _)
column_order(columns, selected_regions, i) ==
    IF i > Len(selected_regions) THEN <<YearLabel>>
    ELSE LET rest == column_order(columns, selected_regions, i + 1)
         IN  <<rest[1]>>
                 \o SelectSeq(columns, LAMBDA c : StartsWith(c, selected_regions[i]))
                 \o SubSeq(rest, 2, Len(rest))

PagesFrequencyPass(entries, selected_regions, freq_percentage) ==
    LET all_bad_years == FrequencyDict(<< >>, entries, 1, freq_percentage)
        sorted_years  == PySorted(DictKeys(all_bad_years))
        ordered       == column_order(<<YearLabel>>, selected_regions, 1)
        columns       == FilledColumns(ordered, all_bad_years, 1)
        series        == SubSeq(columns, 2, Len(columns))
    IN  IF all_bad_years # << >>
        THEN [ran |-> TRUE, dict |-> all_bad_years, shown |-> TRUE, Year |-> sorted_years,
              columns |-> series,
              cell |-> [i \in 1..Len(sorted_years) |->
                          [c \in Range(series) |-> DictGet(all_bad_years, sorted_years[i], c)]],
              signal |-> "none"]
        ELSE NoTable(all_bad_years, "success")

\* one run of the all-seasons page
RunPages ==
    /\ page = "idle"
    /\ LET all_season_data == load_all_seasons
           all_regions == UNION {DOMAIN all_season_data[s] : s \in DOMAIN all_season_data}
       IN
       \E selected_regions \in OrderedSelections(all_regions) :
       \E freq_percentage \in Percentages :
          /\ page' = "pages"
          /\ sliders' = NoSliders
          /\ data' = all_season_data
          /\ sel' = [seasons |-> country_seasons, regions |-> selected_regions,
                     use_threshold |-> FALSE, threshold |-> NaN,
                     freq_percentage |-> freq_percentage, year_range |-> << >>]
          /\ thr' = PassOff
          /\ freq' = IF selected_regions # << >>
                     THEN PagesFrequencyPass(PagesEntries(all_season_data, selected_regions),
                                             selected_regions, freq_percentage)
                     ELSE PassOff
          /\ hist' = HistOff
          /\ UNCHANGED <<files, current_year, cache>>

----------------------------------------------------------------------------

\* a widget interaction reruns the script from the top; the memo of the
\* server process is kept
Rerun ==
    /\ page # "idle"
    /\ page' = "idle"
    /\ sel' = NoSel
    /\ data' = << >>
    /\ thr' = PassOff
    /\ freq' = PassOff
    /\ hist' = HistOff
    /\ sliders' = NoSliders
    /\ UNCHANGED <<files, current_year, cache>>

\* the server process is started again: the page is gone and the memo is empty
Restart ==
    /\ page # "idle"
    /\ page' = "idle"
    /\ sel' = NoSel
    /\ data' = << >>
    /\ thr' = PassOff
    /\ freq' = PassOff
    /\ hist' = HistOff
    /\ sliders' = NoSliders
    /\ cache' = EmptyCache
    /\ UNCHANGED <<files, current_year>>

\* the calendar year changes while the server runs
NewYear ==
    /\ current_year < MaxYear
    /\ current_year' = current_year + 1
    /\ UNCHANGED <<files, page, sel, data, thr, freq, hist, cache, sliders>>

\* every script run in a freshly started server, at a fixed date
Next ==
    \/ \E season \in Seasons : RunApp(season)
    \/ \E seasons \in OrderedSelections(Seasons) : RunMulti(seasons)
    \/ RunPages
    \/ Restart

Spec == Init /\ [][Next]_vars

\* a long-running server over a one-season, one-region folder: reruns that
\* keep the memo, restarts, and the change of the calendar year
SessionInit ==
    /\ Init
    /\ files \in SingleFolders

SessionNext ==
    \/ \E season \in Seasons : RunApp(season)
    \/ \E seasons \in OrderedSelections(Seasons) : RunMulti(seasons)
    \/ RunPages
    \/ Rerun
    \/ Restart
    \/ NewYear

SessionSpec == SessionInit /\ [][SessionNext]_vars
----------------------------------------------------------------------------
(* Vocabulary of the properties                                            *)

\* the SeriesKeys of a run: the selected region-season pairs with a loaded series
SelectedKeys ==
    IF page = "app" THEN Range(sel.regions)
    ELSE {key \in {ColName(r, s) : r \in Range(sel.regions), s \in Range(sel.seasons)} :
            key[2] \in DOMAIN data /\ key[1] \in DOMAIN data[key[2]]}

\* the loaded series of a SeriesKey
SeriesOf(key) ==
    IF page = "app" THEN data[sel.seasons[1]][key] ELSE data[key[2]][key[1]]

\* its rows inside the selected year range (the multi-season page filters, the others do not)
RowsInRange(key) ==
    LET df == SeriesOf(key)
    IN  IF page = "multi" /\ sel.year_range # << >>
        THEN {i \in 1..Len(df) : /\ df[i].Year # NaN
                                 /\ sel.year_range[1] <= df[i].Year
                                 /\ df[i].Year <= sel.year_range[2]}
        ELSE {i \in 1..Len(df) : TRUE}

\* the years a pass flagged for a SeriesKey
Flagged(pass, key) ==
    {pass.dict[i].k : i \in {j \in 1..Len(pass.dict) : key \in Range(pass.dict[j].v)}}

AllFlagged(pass) == UNION {Flagged(pass, key) : key \in SelectedKeys}

----------------------------------------------------------------------------
(* C1: under the threshold policy a (year, SeriesKey) pair is flagged      *)
(* exactly when that series' rainfall of the year is strictly below the    *)
(* threshold T; a year whose rainfall equals T is not flagged.  Both in    *)
(* app.py and in the multi-season script.                                  *)
C1_ThresholdStrict ==
    thr.ran /\ sel.threshold # NaN =>
        \A key \in SelectedKeys :
            Flagged(thr, key) =
                {SeriesOf(key)[i].Year : i \in
                    {j \in 1..Len(SeriesOf(key)) :
                        /\ SeriesOf(key)[j].Year # NaN
                        /\ SeriesOf(key)[j].Rainfall # NaN
                        /\ SeriesOf(key)[j].Rainfall < sel.threshold}}

\* a threshold pass over a series with one year below T and one year at T
C1_Witness ==
    /\ thr.ran /\ sel.threshold # NaN
    /\ \E key \in SelectedKeys : \E i, j \in 1..Len(SeriesOf(key)) :
          /\ SeriesOf(key)[i].Rainfall = sel.threshold
          /\ SeriesOf(key)[i].Year # NaN
          /\ SeriesOf(key)[i].Year \notin Flagged(thr, key)
          /\ SeriesOf(key)[j].Rainfall # NaN
          /\ SeriesOf(key)[j].Rainfall < sel.threshold
          /\ SeriesOf(key)[j].Year \in Flagged(thr, key)

(* C2: under the lowest-percentage policy the number of years flagged for  *)
(* a series is floor(N * P / 100), N being the number of rows of the       *)
(* year-range-filtered series whose rainfall is not missing.               *)
C2_CountOverNonMissing ==
    freq.ran =>
        \A key \in SelectedKeys :
            Cardinality(Flagged(freq, key)) =
                (Cardinality({i \in RowsInRange(key) : SeriesOf(key)[i].Rainfall # NaN})
                    * sel.freq_percentage) \div 100

(* C3: under the lowest-percentage policy every flagged year's rainfall is *)
(* at most every unflagged year's rainfall of the same series (over the    *)
(* rows whose rainfall is not missing), and the series                     *)
(* [(1,100),(2,50),(3,200),(4,30)] with the fixed offset and P = 25 flags  *)
(* exactly the year 1994.                                                  *)
C3_LowestRowsFlagged ==
    freq.ran =>
        /\ \A key \in SelectedKeys : \A i, j \in RowsInRange(key) :
              /\ SeriesOf(key)[i].Rainfall # NaN
              /\ SeriesOf(key)[j].Rainfall # NaN
              /\ SeriesOf(key)[i].Year \in Flagged(freq, key)
              /\ SeriesOf(key)[j].Year \notin Flagged(freq, key)
              => SeriesOf(key)[i].Rainfall <= SeriesOf(key)[j].Rainfall
        /\ /\ page \in {"app", "pages"}
           /\ files["JJA"]["A"] = ScenarioFile
           /\ sel.freq_percentage = 25
           => \A key \in SelectedKeys : Flagged(freq, key) = {1994}

\* the scenario's series classified at 25 % on a fixed-offset page
C3_Witness ==
    /\ freq.ran /\ page = "app"
    /\ files["JJA"]["A"] = ScenarioFile
    /\ sel.freq_percentage = 25
    /\ sel.regions = <<"A">>
    /\ Flagged(freq, "A") = {1994}
    /\ freq.shown

(* C4: a row whose rainfall is missing is never flagged as a bad year, by  *)
(* the threshold policy or by the lowest-percentage policy.                *)
C4_MissingNeverFlagged ==
    \A key \in SelectedKeys : \A i \in 1..Len(SeriesOf(key)) :
        SeriesOf(key)[i].Rainfall = NaN /\ SeriesOf(key)[i].Year # NaN =>
            /\ thr.ran => SeriesOf(key)[i].Year \notin Flagged(thr, key)
            /\ freq.ran => SeriesOf(key)[i].Year \notin Flagged(freq, key)
\* the lines of a source file whose year cell parses as a number
Parsed(file) == {i \in 1..Len(file) : file[i].c0 # Junk}

(* C5: in load_selected_seasons, when strictly more than half of the       *)
(* parsed raw values of a file are below 1000, every row's year is         *)
(* rawValue + (currentCalendarYear - max parsed rawValue); the test is     *)
(* taken over the parsed values only.                                      *)
C5_IndexDetectionOverParsed ==
    page = "multi" =>
        \A s \in DOMAIN data : \A r \in DOMAIN data[s] :
            LET file  == files[s][r]
                small == {i \in Parsed(file) : file[i].c0 < 1000}
                top   == CHOOSE i \in Parsed(file) :
                            \A j \in Parsed(file) : file[j].c0 <= file[i].c0
            IN  2 * Cardinality(small) > Cardinality(Parsed(file)) =>
                    \A i \in Parsed(file) :
                        /\ i <= Len(data[s][r])
                        /\ data[s][r][i].Year = file[i].c0 + (current_year - file[top].c0)

(* C6: in every loader a source row whose year does not parse does not     *)
(* enter the series: the loaded series has exactly one row per source row  *)
(* with a parsable year and no row with a missing year.                    *)
C6_UnparsableYearsDropped ==
    \A s \in DOMAIN data : \A r \in DOMAIN data[s] :
        /\ Len(data[s][r]) = Cardinality(Parsed(files[s][r]))
        /\ \A i \in 1..Len(data[s][r]) : data[s][r][i].Year # NaN

\* every cell of every source file parses as a number
NothingMissing ==
    \A s \in DOMAIN files : \A r \in DOMAIN files[s] : \A i \in 1..Len(files[s][r]) :
        files[s][r][i].c0 # Junk /\ files[s][r][i].c1 # Junk

\* the rows of a pass's table are its flagged years, ascending
RowsAreFlaggedYears(pass) ==
    pass.shown =>
        /\ Range(pass.Year) = AllFlagged(pass)
        /\ \A i, j \in 1..Len(pass.Year) :
              i < j => pass.Year[i] # NaN /\ pass.Year[j] # NaN /\ pass.Year[i] < pass.Year[j]

(* C7: in every aggregated matrix the Year rows are exactly the years      *)
(* flagged by at least one selected SeriesKey, in ascending order (stated  *)
(* for runs whose source files have no unparsable cell).                   *)
C7_RowsAreFlaggedYears ==
    NothingMissing => RowsAreFlaggedYears(thr) /\ RowsAreFlaggedYears(freq)

\* a pass that flagged nothing shows no table and tells the user
SignalsNoBadYears(pass) ==
    pass.ran /\ AllFlagged(pass) = {} => ~pass.shown /\ pass.signal = "success"

(* C8: a classification pass that flags no year for any selected          *)
(* SeriesKey emits no table and signals "no bad years" (stated for runs    *)
(* whose source files have no unparsable cell).                            *)
C8_EmptySignalled ==
    NothingMissing => SignalsNoBadYears(thr) /\ SignalsNoBadYears(freq)

\* every selected key has a column with "Yes" / "" cells
ColumnsComplete(pass) ==
    pass.shown =>
        \A key \in SelectedKeys :
            /\ SeqHas(pass.columns, key)
            /\ \A i \in 1..Len(pass.Year) :
                  pass.cell[i][key] = IF pass.Year[i] \in Flagged(pass, key) THEN "Yes" ELSE ""

(* C9: in every aggregated matrix every selected SeriesKey with a loaded   *)
(* series has a column, whose cell at row year y is "Yes" exactly when y   *)
(* is in the key's flag set and "" otherwise.                              *)
C9_ColumnsComplete ==
    /\ sel.threshold # NaN => ColumnsComplete(thr)
    /\ ColumnsComplete(freq)

\* the selected keys region by region, seasons in selection order inside a region
RegionMajor ==
    SelectSeq([i \in 1..(Len(sel.regions) * Len(sel.seasons)) |->
                  ColName(sel.regions[((i - 1) \div Len(sel.seasons)) + 1],
                          sel.seasons[((i - 1) % Len(sel.seasons)) + 1])],
              LAMBDA key : key \in SelectedKeys)
GroupedByRegion(pass) ==
    pass.shown =>
        /\ \A i, j \in 1..Len(pass.columns) :
              i < j /\ pass.columns[i][1] = pass.columns[j][1] =>
                  \A m \in i..j : pass.columns[m][1] = pass.columns[i][1]
        /\ pass.columns =
              SelectSeq(RegionMajor, LAMBDA key : SeqHas(pass.columns, key))

(* C10: in every multi-season matrix the SeriesKey columns are grouped by  *)
(* region in the order the regions were selected, and within a region by   *)
(* season in the order the seasons were selected or discovered.            *)
C10_GroupedByRegion ==
    page \in {"multi", "pages"} => GroupedByRegion(thr) /\ GroupedByRegion(freq)

\* the chosen historical years S of a run
ChosenYears == Range(hist.selected_years)

\* an entry of a result equals 100 * count / total
IsPercentage(v, count, total) == v.num * total = 100 * count * v.den

\* the scenario's flags: A-JJA flags {1995, 1998}, B-JAS flags {1998}
ScenarioBadYears ==
    << [k |-> 1995, v |-> <<ColName("A", "JJA")>>],
       [k |-> 1998, v |-> <<ColName("A", "JJA"), ColName("B", "JAS")>>] >>

(* C11: for every non-empty chosen year set S, the historical frequency    *)
(* result has an entry for every selected SeriesKey k, equal to            *)
(* 100 * |{y in S : y flagged for k}| / |S| (0 for a key with no flagged   *)
(* year in S); A-JJA flagging {1995,1998} and B-JAS flagging {1998} with   *)
(* S = {1995,1998,2000} give 200/3 and 100/3.                              *)
C11_EntryForEverySelectedKey ==
    /\ hist.ran /\ ChosenYears # {} =>
          \A key \in SelectedKeys :
              /\ key \in DOMAIN hist.percentages
              /\ IsPercentage(hist.percentages[key],
                              Cardinality(ChosenYears \cap Flagged(freq, key)),
                              Cardinality(ChosenYears))
    /\ LET result == selected_years_percentages(ScenarioBadYears, <<1995, 1998, 2000>>)
       IN  /\ DOMAIN result = {ColName("A", "JJA"), ColName("B", "JAS")}
           /\ IsPercentage(result[ColName("A", "JJA")], 2, 3)
           /\ IsPercentage(result[ColName("B", "JAS")], 1, 3)

(* C12: with no historical year chosen (|S| = 0) the analysis yields a     *)
(* result in which every selected SeriesKey has the percentage 0.          *)
C12_EmptySelectionAllZero ==
    hist.ran /\ ChosenYears = {} =>
        /\ hist.computed
        /\ \A key \in SelectedKeys :
              key \in DOMAIN hist.percentages /\ hist.percentages[key].num = 0

(* C13: load_selected_seasons is idempotent: a second call with the same   *)
(* seasons and unchanged files returns the series the first call returned  *)
(* (the result the memo holds), whether it is served from the memo or      *)
(* computed again, also when the calendar year has changed in between.     *)
C13_LoadIdempotent ==
    \A selected_seasons \in DOMAIN cache :
        /\ cached_load_selected_seasons(selected_seasons) = cache[selected_seasons]
        /\ load_selected_seasons(selected_seasons) = cache[selected_seasons]

(* C14: in the multi-season script the rows outside the selected year      *)
(* range [lo, hi] are removed before the lowest-percentage classification: *)
(* every flagged year lies in [lo, hi], the number of years flagged for a  *)
(* series is floor(P/100 * its number of rows inside the range), and the   *)
(* historical years offered are exactly the integers of [lo, hi].          *)
C14_RangeRestrictsClassification ==
    page = "multi" /\ freq.ran =>
        /\ \A key \in SelectedKeys :
              /\ \A y \in Flagged(freq, key) :
                    sel.year_range[1] <= y /\ y <= sel.year_range[2]
              /\ Cardinality(Flagged(freq, key)) =
                    (Cardinality(RowsInRange(key)) * sel.freq_percentage) \div 100
        /\ hist.ran
        /\ \A y \in hist.year_options : sel.year_range[1] <= y /\ y <= sel.year_range[2]
        /\ \A y \in sel.year_range[1]..sel.year_range[2] : y \in hist.year_options

\* the scenario's series (years 2023..2026) restricted to 2023..2025 at 50 %:
\* one of the three rows in range is flagged, 2024, and not the lowest year
\* of the whole series, 2026
C14_Witness ==
    /\ page = "multi" /\ freq.ran /\ hist.ran
    /\ files["JJA"]["A"] = ScenarioFile
    /\ sel.regions = <<"A">>
    /\ sel.year_range = <<2023, 2025>>
    /\ sel.freq_percentage = 50
    /\ Flagged(freq, ColName("A", "JJA")) = {2024}
    /\ hist.year_options = {2023, 2024, 2025}

\* a bound that is missing or infinite
Undefined(x) == x \in {NaN, PosInf, NegInf}
DefinedBounds(slider) ==
    slider # NoSlider => ~Undefined(slider.min_value) /\ ~Undefined(slider.max_value)

\* no selected series has a row with a rainfall / with a year
NoValidRainfall ==
    \A key \in SelectedKeys : \A i \in 1..Len(SeriesOf(key)) : SeriesOf(key)[i].Rainfall = NaN
NoValidYear ==
    \A key \in SelectedKeys : \A i \in 1..Len(SeriesOf(key)) : SeriesOf(key)[i].Year = NaN

(* C15: when the minimum / maximum rainfall or year over the selected      *)
(* series cannot be established (no selected series has a valid row) a     *)
(* warning is surfaced and the slider depending on the range (threshold    *)
(* slider, year-range slider) is not built; no slider is ever built with a *)
(* missing or infinite bound.                                              *)
C15_DegenerateRangesWarned ==
    /\ DefinedBounds(sliders.threshold)
    /\ DefinedBounds(sliders.year_range)
    /\ page \in {"app", "multi"} /\ sel.use_threshold /\ NoValidRainfall =>
          sliders.threshold = NoSlider /\ thr.signal = "warning"
    /\ page = "multi" /\ sel.regions # << >> /\ sel.seasons # << >> /\ NoValidYear =>
          sliders.year_range = NoSlider /\ freq.signal = "warning"

\* the rainfall values of the selected series, and the least of them
RainfallValues ==
    UNION {{SeriesOf(key)[i].Rainfall : i \in 1..Len(SeriesOf(key))} : key \in SelectedKeys}
        \ {NaN}
MinRainfall == CHOOSE v \in RainfallValues : \A w \in RainfallValues : v <= w

(* C16: with the threshold policy enabled and the threshold left at the    *)
(* slider's initial value (the minimum non-missing rainfall over the       *)
(* selected series) no (year, SeriesKey) pair is flagged; a year is        *)
(* flagged for a series only when the threshold is strictly above that     *)
(* series' rainfall of the year.                                           *)
C16_InitialThresholdFlagsNothing ==
    thr.ran /\ sliders.threshold # NoSlider =>
        /\ ~Undefined(sliders.threshold.value) =>
              RainfallValues # {} /\ sliders.threshold.value = MinRainfall
        /\ sel.threshold = sliders.threshold.value =>
              AllFlagged(thr) = {}
        /\ \A key \in SelectedKeys : \A y \in Flagged(thr, key) :
              \E i \in 1..Len(SeriesOf(key)) :
                  /\ SeriesOf(key)[i].Year = y
                  /\ SeriesOf(key)[i].Rainfall # NaN
                  /\ SeriesOf(key)[i].Rainfall < sel.threshold

\* a threshold pass at the slider's initial value over series that have
\* rows at and above that value: nothing is flagged
C16_Witness ==
    /\ thr.ran /\ sel.use_threshold /\ sliders.threshold # NoSlider
    /\ sel.threshold = sliders.threshold.value
    /\ RainfallValues # {}
    /\ sel.threshold = MinRainfall
    /\ \E w \in RainfallValues : w > sel.threshold
    /\ AllFlagged(thr) = {}
====
